---- MODULE Spec2Model ----
(***************************************************************************)
(* Fuel-station shift reconciliation (SH-Fari).                            *)
(*                                                                         *)
(* The stored tables (branches, attendants, shifts, shift_data, expenses)  *)
(* are sequences of rows in insertion order.  Money is fixed-point: one    *)
(* currency unit is Unit model units, so that sub-unit amounts (100.5)     *)
(* exist in the model.  Text (branch ids, names) is a sequence of          *)
(* one-character strings so that toLowerCase and trim are computed.        *)
(***************************************************************************)
EXTENDS Integers, Sequences, FiniteSets, TLC

\* branches, attendants, shifts, shift_data, expenses, cash_analysis_reports:
\* the stored tables.
\* nextId: the next fresh id (crypto.randomUUID()).
\* globalMatrix: the entry client's cached result of getGlobalOverview.
\* pendingView: per manager, the ids of the pending-expense list on screen.
\* counts: the denomination counts typed into the cash-analysis form.
\* deleting: the deleteOpenShiftByBranch call in flight: the await it has
\* passed, the shift it fetched and the shift_data ids it listed.
\* last: the last operation called and what it returned.
VARIABLES branches, attendants, shifts, shift_data, expenses, cash_analysis_reports,
          nextId, globalMatrix, pendingView, counts, deleting, last

vars == <<branches, attendants, shifts, shift_data, expenses, cash_analysis_reports,
          nextId, globalMatrix, pendingView, counts, deleting, last>>

store == <<branches, attendants, shifts, shift_data, expenses, cash_analysis_reports,
           nextId>>

(***************************************************************************)
(* Bounds of the model.                                                    *)
(***************************************************************************)
MaxShiftData == 2
MaxExpenses == 2
Unit == 2

(***************************************************************************)
(* Arithmetic and text helpers (JavaScript built-ins).                     *)
(***************************************************************************)
Max(a, b) == IF a >= b THEN a ELSE b

Abs(a) == IF a >= 0 THEN a ELSE 0 - a

RECURSIVE SumInts(_)
SumInts(s) == IF s = <<>> THEN 0 ELSE Head(s) + SumInts(Tail(s))

LowerChar(c) ==
    CASE c = "A" -> "a"
      [] c = "B" -> "b"
      [] c = "X" -> "x"
      [] c = "Y" -> "y"
      [] OTHER -> c

toLowerCase(s) == [i \in 1..Len(s) |-> LowerChar(s[i])]

RECURSIVE trimStart(_)
trimStart(s) == IF s # <<>> /\ Head(s) = " " THEN trimStart(Tail(s)) ELSE s

RECURSIVE trimEnd(_)
trimEnd(s) ==
    IF s # <<>> /\ s[Len(s)] = " " THEN trimEnd(SubSeq(s, 1, Len(s) - 1)) ELSE s

trim(s) == trimEnd(trimStart(s))

(***************************************************************************)
(* Input domains.                                                          *)
(***************************************************************************)
SeedBranches ==
    << [id |-> <<"x">>, name |-> <<"X", "a">>],
       [id |-> <<"y">>, name |-> <<"Y", "b">>] >>

BranchIds == {SeedBranches[i].id : i \in 1..Len(SeedBranches)}

Managers == {"m1", "m2"}

\* Who submits: branch, attendant name as typed, date and time of the shift.
Who ==
    { [branch_id |-> <<"x">>, attendant_name |-> <<"a">>, shift_date |-> 1],
      [branch_id |-> <<"x">>, attendant_name |-> <<"A">>, shift_date |-> 2],
      [branch_id |-> <<"x">>, attendant_name |-> <<" ", "a">>, shift_date |-> 1],
      [branch_id |-> <<"y">>, attendant_name |-> <<"b">>, shift_date |-> 1] }

\* What is submitted: meters, price, remittances, attached expenses.
What ==
    { [opening_meter |-> 0, closing_meter |-> 1, price_per_liter |-> Unit,
       cash_remitted |-> 1, pos_remitted |-> 1, expenses |-> <<>>],
      [opening_meter |-> 1, closing_meter |-> 3, price_per_liter |-> Unit + 1,
       cash_remitted |-> 3, pos_remitted |-> 0,
       expenses |-> << [description |-> <<"d">>, amount |-> 2],
                       [description |-> <<>>, amount |-> 1] >>],
      [opening_meter |-> 2, closing_meter |-> 1, price_per_liter |-> Unit,
       cash_remitted |-> 1, pos_remitted |-> 0, expenses |-> <<>>],
      [opening_meter |-> 0, closing_meter |-> 1, price_per_liter |-> 0,
       cash_remitted |-> 0, pos_remitted |-> 0, expenses |-> <<>>] }

ManualPayloads ==
    { [branch_id |-> w.branch_id, attendant_name |-> w.attendant_name,
       shift_date |-> w.shift_date, shift_time |-> "Morning",
       opening_meter |-> v.opening_meter, closing_meter |-> v.closing_meter,
       price_per_liter |-> v.price_per_liter, cash_remitted |-> v.cash_remitted,
       pos_remitted |-> v.pos_remitted, expenses |-> v.expenses] : w \in Who, v \in What }

UpdateInputs ==
    { [expected_amount |-> 2, cash_remitted |-> 3, pos_remitted |-> 0, shift_date |-> 0],
      [expected_amount |-> 1, cash_remitted |-> 0, pos_remitted |-> 2, shift_date |-> 2] }

\* What the matcher is asked: branch selected, name typed, total declared.
MatcherBranches == {<<>>, <<"x">>, <<"y">>, <<"z">>}

MatcherNames == {<<>>, <<"a">>, <<"A">>, <<"a", " ">>, <<" ", "a">>, <<"b">>}

DeclaredTotals == 0..8

(***************************************************************************)
(* Row helpers for the tables.                                             *)
(***************************************************************************)
Col(rows, f) == [i \in 1..Len(rows) |-> rows[i][f]]

Ids(rows) == {rows[i].id : i \in 1..Len(rows)}

Rows(rows) == {rows[i] : i \in 1..Len(rows)}

RowById(rows, id) == CHOOSE r \in Rows(rows) : r.id = id

Db == [branches |-> branches, attendants |-> attendants, shifts |-> shifts,
       shift_data |-> shift_data, expenses |-> expenses,
       cash_analysis_reports |-> cash_analysis_reports, nextId |-> nextId]

(***************************************************************************)
(* Variance arithmetic of submitManualShiftData and of the entry form.     *)
(***************************************************************************)
liters_sold_Reversed(p) == p.opening_meter - p.closing_meter

liters_sold(p) == p.closing_meter - p.opening_meter

expected_amount(p) == liters_sold(p) * p.price_per_liter

raw_variance(cash, pos, expected) == (cash + pos) - expected

litersSold(p) == Max(0, p.closing_meter - p.opening_meter)

expectedRevenue(p) == litersSold(p) * p.price_per_liter

totalRemitted(p) == p.cash_remitted + p.pos_remitted

trueVariance(p) == totalRemitted(p) - expectedRevenue(p)

(***************************************************************************)
(* formSchema: the zod schema the entry form validates with before         *)
(* onSubmit runs.                                                          *)
(***************************************************************************)
formSchema_NoRefine(p) ==
    /\ p.branch_id # <<>>
    /\ p.attendant_name # <<>>
    /\ p.price_per_liter >= Unit
    /\ p.opening_meter >= 0
    /\ p.closing_meter >= 0
    /\ p.cash_remitted >= 0
    /\ p.pos_remitted >= 0

formSchema(p) ==
    /\ p.branch_id # <<>>
    /\ p.attendant_name # <<>>
    /\ p.price_per_liter >= Unit
    /\ p.opening_meter >= 0
    /\ p.closing_meter >= 0
    /\ p.cash_remitted >= 0
    /\ p.pos_remitted >= 0
    /\ p.closing_meter >= p.opening_meter

\* The entry form of part_001: its schema, and its preview, which counts the
\* attached expenses as remitted.
expenseSchema_part001(e) == e.description # <<>> /\ e.amount >= 0

formSchema_part001(p) ==
    /\ p.branch_id # <<>>
    /\ p.attendant_name # <<>>
    /\ p.price_per_liter >= Unit
    /\ p.opening_meter >= 0
    /\ p.closing_meter >= 0
    /\ p.cash_remitted >= 0
    /\ p.pos_remitted >= 0
    /\ \A i \in 1..Len(p.expenses) : expenseSchema_part001(p.expenses[i])
    /\ p.closing_meter >= p.opening_meter

sumOfExpenses(p) == SumInts([i \in 1..Len(p.expenses) |-> p.expenses[i].amount])

totalRemitted_part001(p) == p.cash_remitted + p.pos_remitted + sumOfExpenses(p)

trueVariance_part001(p) == totalRemitted_part001(p) - expectedRevenue(p)

\* What is typed into the form of part_001, which has no date or time field.
ManualPayloads_part001 ==
    { [branch_id |-> w.branch_id, attendant_name |-> w.attendant_name,
       opening_meter |-> v.opening_meter, closing_meter |-> v.closing_meter,
       price_per_liter |-> v.price_per_liter, cash_remitted |-> v.cash_remitted,
       pos_remitted |-> v.pos_remitted, expenses |-> v.expenses] :
         w \in { [branch_id |-> <<"x">>, attendant_name |-> <<"a">>],
                 [branch_id |-> <<"y">>, attendant_name |-> <<"b">>] },
         v \in What \cup
               { [opening_meter |-> 0, closing_meter |-> 2, price_per_liter |-> Unit,
                  cash_remitted |-> 2, pos_remitted |-> 1,
                  expenses |-> << [description |-> <<"d">>, amount |-> 1] >>] } }

validExpenses(list) ==
    SelectSeq(list, LAMBDA e : e.description # <<>> /\ e.amount > 0)

(***************************************************************************)
(* .single(): the row when exactly one row matches, otherwise no row.      *)
(***************************************************************************)
single(rows) == IF Len(rows) = 1 THEN rows ELSE <<>>

openShiftFor(S, branch_id, shift_date, shift_time) ==
    single(SelectSeq(S.shifts, LAMBDA s :
        /\ s.branch_id = branch_id
        /\ s.shift_date = shift_date
        /\ s.shift_time = shift_time
        /\ s.status = "OPEN"))

\* "1. Ensure Open Shift": the store after the step, and the shift's id.
ensureOpenShift(S, branch_id, shift_date, shift_time) ==
    LET found == openShiftFor(S, branch_id, shift_date, shift_time)
    IN  IF found # <<>>
        THEN [S |-> S, id |-> found[1].id]
        ELSE [S |-> [S EXCEPT
                        !.shifts = Append(@, [id |-> S.nextId, branch_id |-> branch_id,
                                              shift_date |-> shift_date,
                                              shift_time |-> shift_time,
                                              status |-> "OPEN"]),
                        !.nextId = @ + 1],
              id |-> S.nextId]

\* "2. Resolve Attendant" of submitManualShiftData: lower-cased comparison, no trim.
resolveAttendant(S, branch_id, attendant_name) ==
    LET allAtt == SelectSeq(S.attendants, LAMBDA a : a.branch_id = branch_id)
        hit == SelectSeq(allAtt, LAMBDA a :
                   toLowerCase(a.name) = toLowerCase(attendant_name))
    IN  IF hit # <<>>
        THEN [S |-> S, id |-> hit[1].id]
        ELSE [S |-> [S EXCEPT
                        !.attendants = Append(@, [id |-> S.nextId, branch_id |-> branch_id,
                                                  name |-> attendant_name]),
                        !.nextId = @ + 1],
              id |-> S.nextId]

RECURSIVE expensePayloads(_, _, _)
expensePayloads(list, shiftDataId, firstId) ==
    IF list = <<>> THEN <<>>
    ELSE <<[id |-> firstId, shift_data_id |-> shiftDataId,
            amount |-> Head(list).amount, status |-> "PENDING"]>>
         \o expensePayloads(Tail(list), shiftDataId, firstId + 1)

submitManualShiftData(S, p) ==
    LET s1 == ensureOpenShift(S, p.branch_id, p.shift_date, p.shift_time)
        s2 == resolveAttendant(s1.S, p.branch_id, p.attendant_name)
        expected == expected_amount(p)
        shiftDataId == s2.S.nextId
        s3 == [s2.S EXCEPT
                 !.shift_data = Append(@, [id |-> shiftDataId, shift_id |-> s1.id,
                     attendant_id |-> s2.id,
                     expected_amount |-> expected,
                     cash_remitted |-> p.cash_remitted,
                     pos_remitted |-> p.pos_remitted,
                     variance |-> raw_variance(p.cash_remitted, p.pos_remitted, expected)]),
                 !.nextId = @ + 1]
    IN  [s3 EXCEPT
           !.expenses = @ \o expensePayloads(p.expenses, shiftDataId, s3.nextId),
           !.nextId = @ + Len(p.expenses)]

(***************************************************************************)
(* updateShiftDataRecord: rewrites one row's amounts and variance and, when *)
(* a date is given (0 stands for the empty date), re-dates the parent shift.*)
(***************************************************************************)
update_variance_Stale(old, updates) == old

update_variance(old, updates) ==
    (updates.cash_remitted + updates.pos_remitted) - updates.expected_amount

updateShiftDataRecord(S, id, updates) ==
    IF id \notin Ids(S.shift_data) THEN S
    ELSE LET data == RowById(S.shift_data, id)
             s1 == [S EXCEPT !.shift_data = [i \in 1..Len(@) |->
                        IF @[i].id = id
                        THEN [@[i] EXCEPT
                                 !.expected_amount = updates.expected_amount,
                                 !.cash_remitted = updates.cash_remitted,
                                 !.pos_remitted = updates.pos_remitted,
                                 !.variance = update_variance(@, updates)]
                        ELSE @[i]]]
         IN  IF updates.shift_date # 0
             THEN [s1 EXCEPT !.shifts = [i \in 1..Len(@) |->
                        IF @[i].id = data.shift_id
                        THEN [@[i] EXCEPT !.shift_date = updates.shift_date]
                        ELSE @[i]]]
             ELSE s1

(***************************************************************************)
(* Expense lifecycle: approveExpense / rejectExpense set the status of the *)
(* row with the given id, whatever its current status.                     *)
(***************************************************************************)
setExpenseStatus(S, id, status) ==
    [S EXCEPT !.expenses = [i \in 1..Len(@) |->
        IF @[i].id = id THEN [@[i] EXCEPT !.status = status] ELSE @[i]]]

approveExpense_Recompute(S, id) ==
    LET s1 == setExpenseStatus(S, id, "APPROVED")
        e == RowById(S.expenses, id)
    IN  [s1 EXCEPT !.shift_data = [i \in 1..Len(@) |->
            IF @[i].id = e.shift_data_id
            THEN [@[i] EXCEPT !.variance = @ + e.amount]
            ELSE @[i]]]

approveExpense(S, id) == setExpenseStatus(S, id, "APPROVED")

rejectExpense(S, id) == setExpenseStatus(S, id, "REJECTED")

getPendingExpenses(S) == SelectSeq(S.expenses, LAMBDA e : e.status = "PENDING")

(***************************************************************************)
(* getGlobalOverview.                                                      *)
(***************************************************************************)
RECURSIVE insertByDateDesc(_, _)
insertByDateDesc(sorted, s) ==
    IF sorted = <<>> THEN <<s>>
    ELSE IF Head(sorted).shift_date >= s.shift_date
         THEN <<Head(sorted)>> \o insertByDateDesc(Tail(sorted), s)
         ELSE <<s>> \o sorted

RECURSIVE orderByShiftDateDesc(_)
orderByShiftDateDesc(rows) ==
    IF rows = <<>> THEN <<>>
    ELSE insertByDateDesc(orderByShiftDateDesc(SubSeq(rows, 1, Len(rows) - 1)),
                          rows[Len(rows)])

attendantNameOf(S, attendant_id) ==
    LET hit == SelectSeq(S.attendants, LAMBDA a : a.id = attendant_id)
    IN  IF hit = <<>> THEN <<>> ELSE hit[1].name

shiftDataItems(S) ==
    LET sd == SelectSeq(S.shift_data, LAMBDA item : item.shift_id \in Ids(S.shifts))
    IN  [i \in 1..Len(sd) |->
            LET parentShift == RowById(S.shifts, sd[i].shift_id)
            IN  [id |-> sd[i].id, shift_id |-> sd[i].shift_id,
                 attendant_id |-> sd[i].attendant_id,
                 expected_amount |-> sd[i].expected_amount,
                 cash_remitted |-> sd[i].cash_remitted,
                 pos_remitted |-> sd[i].pos_remitted,
                 variance |-> sd[i].variance,
                 attendant_name |-> attendantNameOf(S, sd[i].attendant_id),
                 shift_date |-> parentShift.shift_date,
                 shift_time |-> parentShift.shift_time,
                 shift_status |-> parentShift.status]]

pendingExpensesOf_AnyStatus(S, items) ==
    SelectSeq(S.expenses, LAMBDA e : e.shift_data_id \in Ids(items))

pendingExpensesOf(S, items) ==
    SelectSeq(S.expenses, LAMBDA e :
        e.shift_data_id \in Ids(items) /\ e.status = "PENDING")

branchItems_OpenOnly(S, allItems, branchShifts) ==
    SelectSeq(allItems, LAMBDA sd :
        sd.shift_id \in Ids(branchShifts) /\ sd.shift_id = branchShifts[1].id)

branchItems(S, allItems, branchShifts) ==
    SelectSeq(allItems, LAMBDA sd : sd.shift_id \in Ids(branchShifts))

overviewRow(S, branch, sortedShifts, allItems, pendingExpenses) ==
    LET branchShifts == SelectSeq(sortedShifts, LAMBDA s : s.branch_id = branch.id)
        shift == IF branchShifts # <<>> THEN <<branchShifts[1]>> ELSE <<>>
        items == branchItems(S, allItems, branchShifts)
        exps == IF items # <<>>
                THEN SelectSeq(pendingExpenses, LAMBDA e : e.shift_data_id \in Ids(items))
                ELSE <<>>
    IN  [branch |-> branch, shift |-> shift, items |-> items,
         pendingExpenses |-> exps,
         totalExpected |-> SumInts(Col(items, "expected_amount")),
         totalCash |-> SumInts(Col(items, "cash_remitted")),
         totalPos |-> SumInts(Col(items, "pos_remitted")),
         pendingExpenseTotal |-> SumInts(Col(exps, "amount")),
         totalVariance |-> SumInts(Col(items, "variance"))]

getGlobalOverview(S) ==
    LET sortedShifts == orderByShiftDateDesc(S.shifts)
        allItems == shiftDataItems(S)
        pendingExpenses == pendingExpensesOf(S, allItems)
    IN  [b \in 1..Len(S.branches) |->
            overviewRow(S, S.branches[b], sortedShifts, allItems, pendingExpenses)]

\* GlobalTracker: the totals over the rows of the matrix.
GlobalTracker_CashOnly(matrix) ==
    [expected |-> SumInts(Col(matrix, "totalExpected")),
     remitted |-> SumInts(Col(matrix, "totalCash")),
     variance |-> SumInts(Col(matrix, "totalVariance")),
     expenses |-> SumInts(Col(matrix, "pendingExpenseTotal"))]

GlobalTracker(matrix) ==
    [expected |-> SumInts(Col(matrix, "totalExpected")),
     remitted |-> SumInts([b \in 1..Len(matrix) |->
                              matrix[b].totalCash + matrix[b].totalPos]),
     variance |-> SumInts(Col(matrix, "totalVariance")),
     expenses |-> SumInts(Col(matrix, "pendingExpenseTotal"))]

\* The current day (new Date()), as a day number.
Today == 2

(***************************************************************************)
(* getGlobalOverview when reads fail.  The client does not throw: a failed  *)
(* read gives data = null, which the function reads as no rows (|| [], ?.). *)
(***************************************************************************)
Reads == {"branches", "shifts", "shift_data", "expenses"}

readData(rows, table, failed) == IF table \in failed THEN <<>> ELSE rows

\* What the call does when the reads of the tables in failed come back with
\* an error: whether it throws, and the matrix it returns.
getGlobalOverviewOutcome(S, failed) ==
    [threw |-> FALSE,
     rows |-> getGlobalOverview(
                  [S EXCEPT !.branches = readData(@, "branches", failed),
                            !.shifts = readData(@, "shifts", failed),
                            !.shift_data = readData(@, "shift_data", failed),
                            !.expenses = readData(@, "expenses", failed)])]

(***************************************************************************)
(* getTrendData.  Dates are day numbers; a stored shift_date is a date-only *)
(* value, which new Date(...).toISOString().split('T')[0] gives back as is. *)
(***************************************************************************)
TrendDays == {0, 30}

\* shift_data joined with its shift (shifts!inner), from historicalDate on.
trendSelect(S, days) ==
    LET historicalDate == Today - days
        joined == SelectSeq(S.shift_data, LAMBDA item : item.shift_id \in Ids(S.shifts))
        items == [i \in 1..Len(joined) |->
                     [expected_amount |-> joined[i].expected_amount,
                      cash_remitted |-> joined[i].cash_remitted,
                      pos_remitted |-> joined[i].pos_remitted,
                      variance |-> joined[i].variance,
                      shift_date |-> RowById(S.shifts, joined[i].shift_id).shift_date]]
    IN  SelectSeq(items, LAMBDA item : item.shift_date >= historicalDate)

trend_variance_Overwritten(sum, item) == item.variance

trend_variance(sum, item) == sum + item.variance

\* "Claimed POS": what the system expected minus physical cash, never below 0.
expectedPos_Signed(item) == item.expected_amount - item.cash_remitted

expectedPos(item) == Max(0, item.expected_amount - item.cash_remitted)

\* The reduce over the items: one entry per dateStr, in the order the dates
\* are first met.
RECURSIVE aggregated(_)
aggregated(shiftItems) ==
    IF shiftItems = <<>> THEN <<>>
    ELSE LET acc == aggregated(SubSeq(shiftItems, 1, Len(shiftItems) - 1))
             item == shiftItems[Len(shiftItems)]
             dateStr == item.shift_date
             acc1 == IF \E i \in 1..Len(acc) : acc[i].date = dateStr THEN acc
                     ELSE Append(acc, [date |-> dateStr, variance |-> 0,
                                       claimed |-> 0, actual |-> 0])
         IN  [i \in 1..Len(acc1) |->
                 IF acc1[i].date = dateStr
                 THEN [acc1[i] EXCEPT !.variance = trend_variance(@, item),
                                      !.claimed = @ + expectedPos(item),
                                      !.actual = @ + item.pos_remitted]
                 ELSE acc1[i]]

RECURSIVE insertByDateAsc(_, _)
insertByDateAsc(sorted, e) ==
    IF sorted = <<>> THEN <<e>>
    ELSE IF Head(sorted).date <= e.date
         THEN <<Head(sorted)>> \o insertByDateAsc(Tail(sorted), e)
         ELSE <<e>> \o sorted

RECURSIVE sortByDate(_)
sortByDate(entries) ==
    IF entries = <<>> THEN <<>>
    ELSE insertByDateAsc(sortByDate(SubSeq(entries, 1, Len(entries) - 1)),
                         entries[Len(entries)])

\* The select has no order clause: the rows come back in any order.
ReadOrders(rows) ==
    {[i \in 1..Len(rows) |-> rows[p[i]]] : p \in Permutations(1..Len(rows))}

\* What is returned for the rows read: the reduce, then
\* Object.values(aggregated).sort(...) by date (localeCompare of two ISO dates
\* orders them as the dates).
trendOf_Unsorted(shiftItems) == aggregated(shiftItems)

trendOf(shiftItems) == sortByDate(aggregated(shiftItems))

\* The call when the rows are read in stored order.
getTrendData(S, days) == trendOf(trendSelect(S, days))

\* What the call does when its read comes back with an error, or with the
\* rows shiftItems.
getTrendDataOutcome(shiftItems, failed) ==
    IF failed # {} THEN [threw |-> TRUE, rows |-> <<>>]
    ELSE [threw |-> FALSE, rows |-> trendOf(shiftItems)]

(***************************************************************************)
(* uploadShiftDataBatch.  A Map is a sequence of <<key, value>> pairs in    *)
(* the order they were set; the last pair set for a key is the one read.   *)
(***************************************************************************)
mapHas(m, k) == \E i \in 1..Len(m) : m[i][1] = k

mapGet(m, k) == m[CHOOSE i \in 1..Len(m) :
                      m[i][1] = k /\ \A j \in (i + 1)..Len(m) : m[j][1] # k][2]

RECURSIVE branchMapOf(_)
branchMapOf(bs) ==
    IF bs = <<>> THEN <<>>
    ELSE LET b == bs[Len(bs)]
         IN  branchMapOf(SubSeq(bs, 1, Len(bs) - 1))
             \o << <<b.id, b.id>> >>
             \o (IF b.name # <<>> THEN << <<trim(toLowerCase(b.name)), b.id>> >> ELSE <<>>)

\* The branch id a row's branch token resolves to, as a sequence of 0 or 1 ids.
validBranchId(branchMap, row) ==
    LET branchInput == trim(row.branch)
    IN  IF branchInput = <<>> THEN <<>>
        ELSE IF mapHas(branchMap, branchInput) THEN <<mapGet(branchMap, branchInput)>>
        ELSE IF mapHas(branchMap, toLowerCase(branchInput))
             THEN <<mapGet(branchMap, toLowerCase(branchInput))>>
        ELSE <<>>

RECURSIVE branchGroups(_, _)
branchGroups(branchMap, csvRows) ==
    IF csvRows = <<>> THEN <<>>
    ELSE LET acc == branchGroups(branchMap, SubSeq(csvRows, 1, Len(csvRows) - 1))
             row == csvRows[Len(csvRows)]
             b == validBranchId(branchMap, row)
             shift_date == IF row.date # 0 THEN row.date ELSE Today
             shift_time == IF row.time # "" THEN row.time ELSE "Morning"
             groupKey == <<b, shift_date, shift_time>>
         IN  IF b = <<>> THEN acc
             ELSE IF \E i \in 1..Len(acc) : acc[i].groupKey = groupKey
                  THEN [i \in 1..Len(acc) |->
                           IF acc[i].groupKey = groupKey
                           THEN [acc[i] EXCEPT !.rows = Append(@, row)]
                           ELSE acc[i]]
                  ELSE Append(acc, [groupKey |-> groupKey, branch_id |-> b[1],
                                    shift_date |-> shift_date, shift_time |-> shift_time,
                                    rows |-> <<row>>])

attendantMapOf(existingAttendants) ==
    [i \in 1..Len(existingAttendants) |->
        <<trim(toLowerCase(existingAttendants[i].name)), existingAttendants[i].id>>]

upload_variance(cash, pos, expected) == (cash + pos) - expected

\* The rows of one group, in order: the store and the insert payloads after
\* them.  calls counts the attendant inserts issued so far in the batch; the
\* insert numbered attErrAt comes back with attErr (0: none does), and the
\* function throws there.
RECURSIVE groupRows(_, _, _, _, _, _, _, _)
groupRows(S, attendantMap, insertPayloads, rows, branch_id, shift_id, calls, attErrAt) ==
    IF rows = <<>>
    THEN [S |-> S, insertPayloads |-> insertPayloads, thrown |-> FALSE, calls |-> calls]
    ELSE LET row == Head(rows)
             rowAttendantName == trim(row.attendant_name)
             key == toLowerCase(rowAttendantName)
             known == mapHas(attendantMap, key)
             attendant_id == IF known THEN mapGet(attendantMap, key) ELSE S.nextId
             s1 == IF known THEN S
                   ELSE [S EXCEPT
                           !.attendants = Append(@, [id |-> S.nextId,
                                branch_id |-> branch_id, name |-> rowAttendantName]),
                           !.nextId = @ + 1]
             map1 == IF known THEN attendantMap
                     ELSE Append(attendantMap, <<key, attendant_id>>)
             calls1 == IF known THEN calls ELSE calls + 1
         IN  IF rowAttendantName = <<>>
             THEN groupRows(S, attendantMap, insertPayloads, Tail(rows), branch_id,
                            shift_id, calls, attErrAt)
             ELSE IF ~known /\ calls1 = attErrAt
             THEN [S |-> S, insertPayloads |-> insertPayloads, thrown |-> TRUE,
                   calls |-> calls1]
             ELSE IF row.expected_amount = 0
             THEN groupRows(s1, map1, insertPayloads, Tail(rows), branch_id,
                            shift_id, calls1, attErrAt)
             ELSE groupRows(
                    [s1 EXCEPT !.nextId = @ + 1], map1,
                    Append(insertPayloads,
                        [id |-> s1.nextId, shift_id |-> shift_id,
                         attendant_id |-> attendant_id,
                         expected_amount |-> row.expected_amount,
                         cash_remitted |-> row.cash_remitted,
                         pos_remitted |-> row.pos_remitted,
                         variance |-> upload_variance(row.cash_remitted, row.pos_remitted,
                                                      row.expected_amount)]),
                    Tail(rows), branch_id, shift_id, calls1, attErrAt)

\* An id no stored row has (what crypto.randomUUID() gives next).
freshId(S) ==
    LET used == Ids(S.shifts) \cup Ids(S.attendants) \cup Ids(S.shift_data)
                \cup Ids(S.expenses) \cup Ids(S.cash_analysis_reports)
    IN  IF used = {} THEN 1 ELSE 1 + CHOOSE m \in used : \A n \in used : n <= m

\* The store a group leaves behind when it throws: the payloads collected so
\* far are never sent, and the ids drawn for them are in no stored row.
abortedGroup_Flushed(r) == [r.S EXCEPT !.shift_data = @ \o r.insertPayloads]

abortedGroup(r) == [r.S EXCEPT !.nextId = freshId(r.S)]

\* The groups from the k-th on, one after another; failedGroup is the index of
\* the group in which the function threw (0: it did not).
RECURSIVE uploadGroups(_, _, _, _, _, _)
uploadGroups(S, groups, totalInserted, k, calls, attErrAt) ==
    IF groups = <<>>
    THEN [S |-> S, totalInserted |-> totalInserted, failedGroup |-> 0]
    ELSE LET g == Head(groups)
             s1 == ensureOpenShift(S, g.branch_id, g.shift_date, g.shift_time)
             existingAttendants ==
                 SelectSeq(s1.S.attendants, LAMBDA a : a.branch_id = g.branch_id)
             r == groupRows(s1.S, attendantMapOf(existingAttendants), <<>>,
                            g.rows, g.branch_id, s1.id, calls, attErrAt)
             s2 == [r.S EXCEPT !.shift_data = @ \o r.insertPayloads]
         IN  IF r.thrown
             THEN [S |-> abortedGroup(r), totalInserted |-> totalInserted, failedGroup |-> k]
             ELSE uploadGroups(s2, Tail(groups), totalInserted + Len(r.insertPayloads),
                               k + 1, r.calls, attErrAt)

noValidRows_One(totalInserted) == totalInserted <= 1

noValidRows(totalInserted) == totalInserted = 0

\* The store after the call and how the call ended: error is "" when it
\* returned, and returned holds the value it returned.
uploadShiftDataBatch(S, csvRows, attErrAt) ==
    LET r == uploadGroups(S, branchGroups(branchMapOf(S.branches), csvRows), 0, 1, 0,
                          attErrAt)
        error == IF r.failedGroup # 0 THEN "Failed to create Attendant Record"
                 ELSE IF noValidRows(r.totalInserted) THEN "No valid rows inserted"
                 ELSE ""
    IN  [S |-> r.S, ok |-> error = "", count |-> r.totalInserted, error |-> error,
         returned |-> IF error = "" THEN <<[success |-> TRUE, count |-> r.totalInserted]>>
                      ELSE <<>>,
         failedGroup |-> r.failedGroup]

CsvRows ==
    { [branch |-> <<"x">>, attendant_name |-> <<" ", "A">>, date |-> 1, time |-> "",
       expected_amount |-> 3, cash_remitted |-> 1, pos_remitted |-> 1],
      [branch |-> <<"Y", "B">>, attendant_name |-> <<"b">>, date |-> 0, time |-> "Morning",
       expected_amount |-> 1, cash_remitted |-> 3, pos_remitted |-> 0],
      [branch |-> <<"x">>, attendant_name |-> <<"b">>, date |-> 1, time |-> "Morning",
       expected_amount |-> 0, cash_remitted |-> 1, pos_remitted |-> 0],
      [branch |-> <<"z">>, attendant_name |-> <<"a">>, date |-> 1, time |-> "Morning",
       expected_amount |-> 1, cash_remitted |-> 1, pos_remitted |-> 0] }

MaxBatch == 2

Batches == UNION {[1..n -> CsvRows] : n \in 1..MaxBatch}

(***************************************************************************)
(* Reconciliation matcher of the cash-analysis and entry forms.            *)
(***************************************************************************)
nameMatches(itemName, attendantName) ==
    itemName # <<>> /\ toLowerCase(itemName) = toLowerCase(attendantName)

noLedgerRows_Zero == [isNull |-> FALSE, value |-> 0]

noLedgerRows == [isNull |-> TRUE, value |-> 0]

attendantRemitted(gm, branchId, attendantName) ==
    IF branchId = <<>> \/ attendantName = <<>> \/ ~gm.loaded THEN [isNull |-> TRUE, value |-> 0]
    ELSE LET branchRows == SelectSeq(gm.rows, LAMBDA r : r.branch.id = branchId)
         IN  IF branchRows = <<>> THEN [isNull |-> TRUE, value |-> 0]
             ELSE LET matchingItems == SelectSeq(branchRows[1].items, LAMBDA item :
                                           nameMatches(item.attendant_name, attendantName))
                  IN  IF matchingItems = <<>> THEN noLedgerRows
                      ELSE [isNull |-> FALSE,
                            value |-> SumInts(Col(matchingItems, "cash_remitted"))
                                      + SumInts(Col(matchingItems, "pos_remitted"))]

isMatched_Exact(declared, remitted) ==
    ~remitted.isNull /\ Abs(declared - remitted.value) < 1

isMatched(declared, remitted) ==
    ~remitted.isNull /\ Abs(declared - remitted.value) < Unit

hasMismatch(declared, remitted) ==
    ~remitted.isNull /\ Abs(declared - remitted.value) >= Unit

difference(declared, remitted) == declared - remitted.value

(***************************************************************************)
(* Cash denominations.  A JavaScript object with numeric keys is a function *)
(* from its keys; Object.values and Object.entries list it by ascending key.*)
(* CashAnalysis.tsx and ManualDataEntry.tsx hold the same code for counts,  *)
(* subtotals and totalCash.                                                 *)
(***************************************************************************)
DENOMINATIONS == <<1000, 500, 200, 100, 50, 20, 10, 5>>

Denominations == {DENOMINATIONS[i] : i \in 1..Len(DENOMINATIONS)}

ZeroCounts == [curr \in Denominations |-> 0]

\* counts[curr] || 0
countOf(obj, key) == IF key \in DOMAIN obj THEN obj[key] ELSE 0

RECURSIVE keysAscending(_)
keysAscending(keys) ==
    IF keys = {} THEN <<>>
    ELSE LET least == CHOOSE k \in keys : \A other \in keys : k <= other
         IN  <<least>> \o keysAscending(keys \ {least})

objectValues(obj) ==
    LET keys == keysAscending(DOMAIN obj) IN [i \in 1..Len(keys) |-> obj[keys[i]]]

objectEntries(obj) ==
    LET keys == keysAscending(DOMAIN obj) IN [i \in 1..Len(keys) |-> <<keys[i], obj[keys[i]]>>]

subtotal_Sum(curr, count) == curr + count

subtotal(curr, count) == curr * count

subtotals(c) == [curr \in Denominations |-> subtotal(curr, countOf(c, curr))]

totalCash(c) == SumInts(objectValues(subtotals(c)))

IsDigit(ch) == ch \in {"0", "1", "2", "3", "4", "5", "6", "7", "8", "9"}

DigitValue(ch) ==
    CASE ch = "0" -> 0 [] ch = "1" -> 1 [] ch = "2" -> 2 [] ch = "3" -> 3
      [] ch = "4" -> 4 [] ch = "5" -> 5 [] ch = "6" -> 6 [] ch = "7" -> 7
      [] ch = "8" -> 8 [] ch = "9" -> 9

\* The value of the leading digits of a text, after the digits read so far.
RECURSIVE leadingDigits(_, _)
leadingDigits(text, acc) ==
    IF text # <<>> /\ IsDigit(Head(text))
    THEN leadingDigits(Tail(text), 10 * acc + DigitValue(Head(text)))
    ELSE acc

\* parseInt(value, 10): leading blanks and a sign are skipped, the digits that
\* follow are read, and the result is NaN when no digit follows.
parseInt(value) ==
    LET text == trimStart(value)
        signed == text # <<>> /\ Head(text) \in {"+", "-"}
        digits == IF signed THEN Tail(text) ELSE text
    IN  IF digits = <<>> \/ ~IsDigit(Head(digits)) THEN [nan |-> TRUE, value |-> 0]
        ELSE [nan |-> FALSE,
              value |-> IF signed /\ Head(text) = "-" THEN 0 - leadingDigits(digits, 0)
                        ELSE leadingDigits(digits, 0)]

handleCountChange_NoClamp(c, denomination, value) ==
    LET numValue == parseInt(value)
    IN  [c EXCEPT ![denomination] = IF numValue.nan THEN 0 ELSE numValue.value]

handleCountChange(c, denomination, value) ==
    LET numValue == parseInt(value)
    IN  [c EXCEPT ![denomination] = IF numValue.nan THEN 0 ELSE Max(0, numValue.value)]

\* What is typed into a count field.
CountInputs ==
    { <<>>, <<"a">>, <<"-", "3">>, <<"0">>, <<"1">>, <<"0", "2">>, <<"1", ".", "5">>,
      <<" ", "2">> }

\* What the Lock Cash Sheet button sends for the counts on screen.
lockCashSheet(form, c) ==
    [branch_id |-> form.branch_id, attendant_name |-> form.attendant_name,
     denominations |-> c, total_cash |-> totalCash(c),
     shift_date |-> form.shift_date, shift_time |-> form.shift_time]

\* The importer's cash sheet: the count cells of an attendant block, one per
\* sheet row that exists, read with parseInt(...) || 0 (an empty cell reads as
\* '0'), and the total kept for the block.
importDenomCounts(countCells) ==
    [d \in {DENOMINATIONS[i] : i \in 1..Len(countCells)} |->
        LET i == CHOOSE k \in 1..Len(DENOMINATIONS) : DENOMINATIONS[k] = d
            n == parseInt(IF countCells[i] # <<>> THEN countCells[i] ELSE <<"0">>)
        IN  IF n.nan THEN 0 ELSE n.value]

importTotalCash(cashRowTotal, denomCounts) ==
    IF cashRowTotal # 0 THEN cashRowTotal
    ELSE LET e == objectEntries(denomCounts)
         IN  SumInts([i \in 1..Len(e) |-> e[i][1] * e[i][2]])

(***************************************************************************)
(* Cash analysis reports: submitCashAnalysis and the attendant drill-down.  *)
(***************************************************************************)
MaxReports == 2

submitCashAnalysis(S, payload) ==
    [S EXCEPT
       !.cash_analysis_reports =
           Append(@, [id |-> S.nextId, branch_id |-> payload.branch_id,
                      attendant_name |-> payload.attendant_name,
                      denominations |-> payload.denominations,
                      total_cash |-> payload.total_cash,
                      shift_date |-> payload.shift_date,
                      shift_time |-> payload.shift_time]),
       !.nextId = @ + 1]

\* ilike on a pattern without wildcards: equality ignoring letter case.
ilike(text, pattern) == toLowerCase(text) = toLowerCase(pattern)

getAttendantDrillDown(S, branchId, attendantName, shiftDate, shiftTime) ==
    LET cashReports == SelectSeq(S.cash_analysis_reports, LAMBDA r :
                           /\ r.branch_id = branchId
                           /\ ilike(r.attendant_name, attendantName)
                           /\ r.shift_date = shiftDate
                           /\ r.shift_time = shiftTime)
        cashReport == IF cashReports # <<>> THEN <<cashReports[Len(cashReports)]>> ELSE <<>>
        shift == openShiftFor(S, branchId, shiftDate, shiftTime)
        attendant == single(SelectSeq(S.attendants, LAMBDA a :
                                a.branch_id = branchId /\ ilike(a.name, attendantName)))
        sdIds == IF shift = <<>> \/ attendant = <<>> THEN {}
                 ELSE Ids(SelectSeq(S.shift_data, LAMBDA r :
                              r.shift_id = shift[1].id /\ r.attendant_id = attendant[1].id))
    IN  [cashReport |-> cashReport,
         expenses |-> SelectSeq(S.expenses, LAMBDA e : e.shift_data_id \in sdIds)]

\* The drill-down's vault total: every entry of the stored mapping.
vaultTotal(denominations) ==
    LET e == objectEntries(denominations)
    IN  SumInts([i \in 1..Len(e) |-> e[i][1] * e[i][2]])

\* Mappings a report is stored with: the form's, a partial one, and one with a
\* note value the forms do not know.
DenominationMappings ==
    { [ZeroCounts EXCEPT ![1000] = 1, ![5] = 2],
      (500 :> 2),
      (1000 :> 1) @@ (2000 :> 1) }

CashPayloads ==
    { [branch_id |-> <<"x">>, attendant_name |-> n, denominations |-> m,
       total_cash |-> totalCash(m), shift_date |-> 1, shift_time |-> "Morning"] :
         n \in {<<"a">>, <<"B">>}, m \in DenominationMappings }

DrillDownQueries ==
    { [branchId |-> <<"x">>, attendantName |-> n, shiftDate |-> 1, shiftTime |-> "Morning"] :
         n \in {<<"A">>, <<"b">>} }

(***************************************************************************)
(* The active-shift lookup of the local server (GET                         *)
(* /api/shifts/active/:branchId) and of the MCP server (get_active_shifts), *)
(* which read the tables of fueltrack_v2.db with prepared statements.       *)
(***************************************************************************)
\* db.prepare("SELECT * FROM shifts WHERE branch_id = ? AND status = 'OPEN'")
\* .get(...params): the first matching row; the statement throws a RangeError
\* when fewer values are bound than it has placeholders.
selectOpenShift(S, params) ==
    IF Len(params) < 1 THEN [threw |-> TRUE, row |-> <<>>]
    ELSE LET hit == SelectSeq(S.shifts, LAMBDA s :
                        s.branch_id = params[1] /\ s.status = "OPEN")
         IN  [threw |-> FALSE, row |-> IF hit = <<>> THEN <<>> ELSE <<hit[1]>>]

\* SELECT sd.*, a.name as attendant_name FROM shift_data sd
\* JOIN attendants a ON sd.attendant_id = a.id WHERE sd.shift_id = ?
selectShiftData(S, shift_id) ==
    LET sd == SelectSeq(S.shift_data, LAMBDA r :
                  r.shift_id = shift_id /\ r.attendant_id \in Ids(S.attendants))
    IN  [i \in 1..Len(sd) |->
            [id |-> sd[i].id, shift_id |-> sd[i].shift_id,
             attendant_id |-> sd[i].attendant_id,
             attendant_name |-> attendantNameOf(S, sd[i].attendant_id)]]

\* What either lookup answers: threw (the tool's isError reply, the route's
\* 500), noActiveShift (the tool's error text, the route's 404), or the shift
\* and its data.  Both run the shift statement as .get(), binding no value.
activeShiftLookup(S, branchId) ==
    LET shift == selectOpenShift(S, <<>>)
    IN  IF shift.threw
        THEN [threw |-> TRUE, noActiveShift |-> FALSE, shift |-> <<>>, data |-> <<>>]
        ELSE IF shift.row = <<>>
        THEN [threw |-> FALSE, noActiveShift |-> TRUE, shift |-> <<>>, data |-> <<>>]
        ELSE [threw |-> FALSE, noActiveShift |-> FALSE, shift |-> shift.row,
              data |-> selectShiftData(S, shift.row[1].id)]

\* The tool refuses a missing branch_id before it reads.
get_active_shifts(S, branchId) ==
    IF branchId = <<>>
    THEN [threw |-> TRUE, noActiveShift |-> FALSE, shift |-> <<>>, data |-> <<>>]
    ELSE activeShiftLookup(S, branchId)

\* The branch ids asked for: none, the two branches, and an unknown one.
LookupBranchIds == {<<>>, <<"x">>, <<"y">>, <<"z">>}

\* Contents of the shifts table: per branch no shift, an OPEN one, a CLOSED
\* one, or a CLOSED and an OPEN one.
ShiftsOfBranch(b, firstId) ==
    LET sh(id, status) == [id |-> id, branch_id |-> b, shift_date |-> 0,
                           shift_time |-> "", status |-> status]
    IN  { <<>>, <<sh(firstId, "OPEN")>>, <<sh(firstId, "CLOSED")>>,
          <<sh(firstId, "CLOSED"), sh(firstId + 1, "OPEN")>> }

ShiftTables == { sx \o sy : sx \in ShiftsOfBranch(<<"x">>, 1),
                            sy \in ShiftsOfBranch(<<"y">>, 3) }

LookupAttendants ==
    << [id |-> 5, branch_id |-> <<"x">>, name |-> <<"a">>],
       [id |-> 6, branch_id |-> <<"y">>, name |-> <<"b">>] >>

\* One shift_data row per shift, by the branch's attendant.
ShiftDataOf(table) ==
    [i \in 1..Len(table) |->
        [id |-> 10 + table[i].id, shift_id |-> table[i].id,
         attendant_id |-> IF table[i].branch_id = <<"x">> THEN 5 ELSE 6,
         expected_amount |-> 2, cash_remitted |-> 1, pos_remitted |-> 1, variance |-> 0]]

(***************************************************************************)
(* deleteOpenShiftByBranch, one database call at a time.                    *)
(***************************************************************************)
MaxDeletes == 1

NotDeleting == [pc |-> "idle", shift_id |-> 0, shiftDataIds |-> {}, runs |-> 0]

\* "1. Fetch the OPEN shift for the branch": .single() over the branch's OPEN shifts.
openShiftOfBranch(S, branchId) ==
    single(SelectSeq(S.shifts, LAMBDA s : s.branch_id = branchId /\ s.status = "OPEN"))

shiftDataIdsOf(S, shift_id) ==
    Ids(SelectSeq(S.shift_data, LAMBDA sd : sd.shift_id = shift_id))

\* from('expenses').delete().in('shift_data_id', shiftDataIds)
purgeExpenses(S, shiftDataIds) ==
    [S EXCEPT !.expenses = SelectSeq(@, LAMBDA e : e.shift_data_id \notin shiftDataIds)]

\* from('shift_data').delete().in('id', shiftDataIds)
purgeShiftData(S, shiftDataIds) ==
    [S EXCEPT !.shift_data = SelectSeq(@, LAMBDA sd : sd.id \notin shiftDataIds)]

\* from('shifts').delete().eq('id', shift.id)
deleteShift(S, shift_id) ==
    [S EXCEPT !.shifts = SelectSeq(@, LAMBDA s : s.id # shift_id)]

(***************************************************************************)
(* The state machine.                                                      *)
(***************************************************************************)
MaxShifts == 3

Init ==
    /\ branches = SeedBranches
    /\ attendants = <<>>
    /\ shifts = <<>>
    /\ shift_data = <<>>
    /\ expenses = <<>>
    /\ cash_analysis_reports = <<>>
    /\ nextId = 1
    /\ counts = ZeroCounts
    /\ deleting = NotDeleting
    /\ globalMatrix = [loaded |-> FALSE, rows |-> <<>>]
    /\ pendingView = [m \in Managers |-> {}]
    /\ last = [op |-> "init"]

WithinBounds(S) ==
    /\ Len(S.shift_data) <= MaxShiftData
    /\ Len(S.expenses) <= MaxExpenses
    /\ Len(S.shifts) <= MaxShifts

Store(S) ==
    /\ branches' = S.branches
    /\ attendants' = S.attendants
    /\ shifts' = S.shifts
    /\ shift_data' = S.shift_data
    /\ expenses' = S.expenses
    /\ cash_analysis_reports' = S.cash_analysis_reports
    /\ nextId' = S.nextId

\* invalidateQueries(['global_overview']): a loaded overview is fetched again.
Refetched(S) ==
    IF globalMatrix.loaded THEN [loaded |-> TRUE, rows |-> getGlobalOverview(S)]
    ELSE globalMatrix

\* What the entry form computes the expected revenue from.
metersOf(p) ==
    [opening_meter |-> p.opening_meter, closing_meter |-> p.closing_meter,
     price_per_liter |-> p.price_per_liter]

\* handleSubmit(onSubmit) of the entry form: validate, then submitManualShiftData.
SubmitManualShiftData ==
    \E p \in ManualPayloads :
        IF formSchema(p)
        THEN LET S == submitManualShiftData(Db, [p EXCEPT !.expenses = validExpenses(@)])
             IN  /\ WithinBounds(S)
                 /\ Store(S)
                 /\ globalMatrix' = Refetched(S)
                 /\ last' = [op |-> "submit", ok |-> TRUE, meters |-> metersOf(p),
                             id |-> S.shift_data[Len(S.shift_data)].id,
                             preview |-> trueVariance(p)]
                 /\ UNCHANGED <<pendingView, counts, deleting>>
        ELSE /\ last' = [op |-> "submit", ok |-> FALSE, meters |-> metersOf(p), id |-> 0]
             /\ UNCHANGED <<store, globalMatrix, pendingView, counts, deleting>>

\* handleSubmit(onSubmit) of the entry form of part_001: validate, then
\* submitManualShiftData with the form's data, which names no date and no time.
OnSubmit_part001 ==
    \E p \in ManualPayloads_part001 :
        IF formSchema_part001(p)
        THEN LET S == submitManualShiftData(Db,
                          [branch_id |-> p.branch_id, attendant_name |-> p.attendant_name,
                           shift_date |-> 0, shift_time |-> "",
                           opening_meter |-> p.opening_meter,
                           closing_meter |-> p.closing_meter,
                           price_per_liter |-> p.price_per_liter,
                           cash_remitted |-> p.cash_remitted,
                           pos_remitted |-> p.pos_remitted, expenses |-> p.expenses])
             IN  /\ WithinBounds(S)
                 /\ Store(S)
                 /\ last' = [op |-> "submit", ok |-> TRUE, meters |-> metersOf(p),
                             id |-> S.shift_data[Len(S.shift_data)].id,
                             preview |-> trueVariance_part001(p)]
                 /\ UNCHANGED <<globalMatrix, pendingView, counts, deleting>>
        ELSE /\ last' = [op |-> "submit", ok |-> FALSE, meters |-> metersOf(p), id |-> 0]
             /\ UNCHANGED <<store, globalMatrix, pendingView, counts, deleting>>

\* saveEdit of a ledger row shown in the overview.
UpdateShiftDataRecord ==
    \E id \in Ids(shift_data), updates \in UpdateInputs :
        LET S == updateShiftDataRecord(Db, id, updates)
        IN  /\ Store(S)
            /\ globalMatrix' = Refetched(S)
            /\ last' = [op |-> "update", id |-> id, shift_date |-> updates.shift_date]
            /\ UNCHANGED <<pendingView, counts, deleting>>

\* What the importer learns of a call: rows is the number of rows it sent.
uploadOutcome(r, csvRows) ==
    [op |-> "upload", ok |-> r.ok, count |-> r.count, rows |-> Len(csvRows),
     error |-> r.error, returned |-> r.returned]

\* executeImport with every database call succeeding.
UploadShiftDataBatch ==
    \E csvRows \in Batches :
        LET r == uploadShiftDataBatch(Db, csvRows, 0)
        IN  /\ WithinBounds(r.S)
            /\ Store(r.S)
            /\ globalMatrix' = IF r.ok THEN Refetched(r.S) ELSE globalMatrix
            /\ last' = uploadOutcome(r, csvRows)
            /\ UNCHANGED <<pendingView, counts, deleting>>

\* executeImport when one of the batch's attendant inserts fails.
UploadShiftDataBatchAttErr ==
    \E csvRows \in Batches, attErrAt \in 1..MaxBatch :
        \E r \in {uploadShiftDataBatch(Db, csvRows, attErrAt)} :
            /\ r.failedGroup # 0
            /\ WithinBounds(r.S)
            /\ Store(r.S)
            /\ globalMatrix' = globalMatrix
            /\ last' = [op |-> "upload", ok |-> FALSE, count |-> r.count,
                        rows |-> Len(csvRows), error |-> r.error, returned |-> r.returned,
                        csvRows |-> csvRows, failedGroup |-> r.failedGroup]
            /\ UNCHANGED <<pendingView, counts, deleting>>

\* A manager opens the expense audit: getPendingExpenses.
GetPendingExpenses ==
    \E m \in Managers :
        /\ pendingView' = [pendingView EXCEPT ![m] = Ids(getPendingExpenses(Db))]
        /\ last' = [op |-> "getPendingExpenses", manager |-> m]
        /\ UNCHANGED <<store, globalMatrix, counts, deleting>>

\* A manager approves an expense of the list they are looking at.
ApproveExpense ==
    \E m \in Managers : \E id \in pendingView[m] :
        LET S == approveExpense(Db, id)
        IN  /\ Store(S)
            /\ pendingView' = [pendingView EXCEPT ![m] = Ids(getPendingExpenses(S))]
            /\ last' = [op |-> "approve", id |-> id, manager |-> m]
            /\ UNCHANGED <<globalMatrix, counts, deleting>>

RejectExpense ==
    \E m \in Managers : \E id \in pendingView[m] :
        LET S == rejectExpense(Db, id)
        IN  /\ Store(S)
            /\ pendingView' = [pendingView EXCEPT ![m] = Ids(getPendingExpenses(S))]
            /\ last' = [op |-> "reject", id |-> id, manager |-> m]
            /\ UNCHANGED <<globalMatrix, counts, deleting>>

\* The overview query, had it written the variance it sums back to the rows.
GetGlobalOverview_WritesBack ==
    /\ globalMatrix' = [loaded |-> TRUE, rows |-> getGlobalOverview(Db)]
    /\ last' = [op |-> "getGlobalOverview"]
    /\ shift_data' = [i \in 1..Len(shift_data) |->
                         [shift_data[i] EXCEPT !.variance =
                             raw_variance(shift_data[i].cash_remitted,
                                          shift_data[i].pos_remitted,
                                          shift_data[i].expected_amount) + 1]]
    /\ UNCHANGED <<branches, attendants, shifts, expenses, cash_analysis_reports, nextId,
                   pendingView, counts, deleting>>

GetGlobalOverview ==
    /\ globalMatrix' = [loaded |-> TRUE, rows |-> getGlobalOverview(Db)]
    /\ last' = [op |-> "getGlobalOverview"]
    /\ UNCHANGED <<store, pendingView, counts, deleting>>

\* The overview query when some of its reads fail.
GetGlobalOverviewReadFails ==
    \E failed \in (SUBSET Reads) \ {{}} :
        LET r == getGlobalOverviewOutcome(Db, failed)
        IN  /\ globalMatrix' = IF r.threw THEN globalMatrix
                               ELSE [loaded |-> TRUE, rows |-> r.rows]
            /\ last' = [op |-> "getGlobalOverview", failed |-> failed, threw |-> r.threw,
                        rows |-> r.rows]
            /\ UNCHANGED <<store, pendingView, counts, deleting>>

\* The trend query, whose read succeeds or fails.
GetTrendData ==
    \E days \in TrendDays, failed \in {{}, {"shift_data"}} :
        \E shiftItems \in ReadOrders(trendSelect(Db, days)) :
            LET r == getTrendDataOutcome(shiftItems, failed)
            IN  /\ last' = [op |-> "getTrendData", days |-> days, failed |-> failed,
                            threw |-> r.threw, rows |-> r.rows,
                            read |-> IF failed # {} THEN <<>> ELSE shiftItems]
                /\ UNCHANGED <<store, globalMatrix, pendingView, counts, deleting>>

\* A count field of the cash-analysis form is edited.
HandleCountChange ==
    \E denomination \in Denominations, value \in CountInputs :
        /\ counts' = handleCountChange(counts, denomination, value)
        /\ last' = [op |-> "handleCountChange",
                    negative |-> ~parseInt(value).nan /\ parseInt(value).value < 0]
        /\ UNCHANGED <<store, globalMatrix, pendingView, deleting>>

\* A cash analysis report is written through submitCashAnalysis.
SubmitCashAnalysis ==
    \E payload \in CashPayloads :
        /\ Len(cash_analysis_reports) < MaxReports
        /\ Store(submitCashAnalysis(Db, payload))
        /\ last' = [op |-> "submitCashAnalysis"]
        /\ UNCHANGED <<globalMatrix, pendingView, counts, deleting>>

\* The attendant modal opens: the drill-down is fetched and the vault total shown.
GetAttendantDrillDown ==
    \E q \in DrillDownQueries :
        LET data == getAttendantDrillDown(Db, q.branchId, q.attendantName,
                                          q.shiftDate, q.shiftTime)
        IN  /\ last' = [op |-> "getAttendantDrillDown", cashReport |-> data.cashReport,
                        vaultTotal |-> IF data.cashReport # <<>>
                                       THEN vaultTotal(data.cashReport[1].denominations)
                                       ELSE 0]
            /\ UNCHANGED <<store, globalMatrix, pendingView, counts, deleting>>

\* The ledger: entry, import, edit, and the overview read.
Next ==
    \/ SubmitManualShiftData
    \/ UpdateShiftDataRecord
    \/ UploadShiftDataBatch
    \/ GetGlobalOverview

Spec == Init /\ [][Next]_vars

\* The expense lifecycle: entry with expenses, two managers, the overview read.
NextExpense ==
    \/ SubmitManualShiftData
    \/ GetPendingExpenses
    \/ ApproveExpense
    \/ RejectExpense
    \/ GetGlobalOverview

SpecExpense == Init /\ [][NextExpense]_vars

\* The import when database calls can fail.
NextFault ==
    \/ UploadShiftDataBatch
    \/ UploadShiftDataBatchAttErr
    \/ GetGlobalOverviewReadFails
    \/ GetTrendData

SpecFault == Init /\ [][NextFault]_vars

\* The trend over a ledger that is entered by hand and edited.
NextTrend ==
    \/ SubmitManualShiftData
    \/ UpdateShiftDataRecord
    \/ GetTrendData

SpecTrend == Init /\ [][NextTrend]_vars

\* The cash-analysis form's count fields.
NextCash == HandleCountChange

SpecCash == Init /\ [][NextCash]_vars

\* Stored cash analysis reports and the drill-down that reads them.
NextVault ==
    \/ SubmitCashAnalysis
    \/ GetAttendantDrillDown

SpecVault == Init /\ [][NextVault]_vars

\* deleteOpenShiftByBranch is called: the OPEN shift of the branch is fetched,
\* and the call returns at once when there is not exactly one.
DeleteFetchShift ==
    \E branchId \in BranchIds :
        LET shift == openShiftOfBranch(Db, branchId)
        IN  /\ deleting.pc = "idle"
            /\ deleting.runs < MaxDeletes
            /\ deleting' = IF shift = <<>> THEN deleting
                           ELSE [deleting EXCEPT !.pc = "shift", !.shift_id = shift[1].id]
            /\ last' = [op |-> "deleteOpenShiftByBranch", branch_id |-> branchId,
                        ok |-> shift # <<>>]
            /\ UNCHANGED <<store, globalMatrix, pendingView, counts>>

\* The ids of the shift's shift_data rows are listed.
DeleteListShiftData ==
    /\ deleting.pc = "shift"
    /\ deleting' = [deleting EXCEPT !.pc = "shiftDataItems",
                                    !.shiftDataIds = shiftDataIdsOf(Db, deleting.shift_id)]
    /\ UNCHANGED <<store, globalMatrix, pendingView, counts, last>>

\* "Purge expenses safely", when rows were listed.
DeletePurgeExpenses ==
    /\ deleting.pc = "shiftDataItems"
    /\ deleting.shiftDataIds # {}
    /\ Store(purgeExpenses(Db, deleting.shiftDataIds))
    /\ deleting' = [deleting EXCEPT !.pc = "expenses"]
    /\ UNCHANGED <<globalMatrix, pendingView, counts, last>>

\* "Purge shift data".
DeletePurgeShiftData ==
    /\ deleting.pc = "expenses"
    /\ Store(purgeShiftData(Db, deleting.shiftDataIds))
    /\ deleting' = [deleting EXCEPT !.pc = "shift_data"]
    /\ UNCHANGED <<globalMatrix, pendingView, counts, last>>

\* "Finally, delete the shift itself", and the call returns.
DeleteShift ==
    /\ \/ deleting.pc = "shift_data"
       \/ deleting.pc = "shiftDataItems" /\ deleting.shiftDataIds = {}
    /\ Store(deleteShift(Db, deleting.shift_id))
    /\ deleting' = [NotDeleting EXCEPT !.runs = deleting.runs + 1]
    /\ last' = [op |-> "deleteOpenShiftByBranch", shift_id |-> deleting.shift_id,
                ok |-> TRUE, done |-> TRUE]
    /\ UNCHANGED <<globalMatrix, pendingView, counts>>

\* Entries and imports before and while a shift is being deleted: a call of
\* either runs between two database calls of the deletion.  The exploration
\* ends when MaxDeletes deletions have returned.
NextDelete ==
    \/ deleting.runs < MaxDeletes /\ SubmitManualShiftData
    \/ deleting.runs < MaxDeletes /\ UploadShiftDataBatch
    \/ DeleteFetchShift
    \/ DeleteListShiftData
    \/ DeletePurgeExpenses
    \/ DeletePurgeShiftData
    \/ DeleteShift

SpecDelete == Init /\ [][NextDelete]_vars

\* The tool get_active_shifts is called.
GetActiveShifts ==
    \E branchId \in LookupBranchIds :
        /\ last' = [op |-> "get_active_shifts", branch_id |-> branchId,
                    result |-> get_active_shifts(Db, branchId)]
        /\ UNCHANGED <<store, globalMatrix, pendingView, counts, deleting>>

\* GET /api/shifts/active/:branchId is requested (the path names a branch).
ApiShiftsActive ==
    \E branchId \in LookupBranchIds \ {<<>>} :
        /\ last' = [op |-> "GET /api/shifts/active", branch_id |-> branchId,
                    result |-> activeShiftLookup(Db, branchId)]
        /\ UNCHANGED <<store, globalMatrix, pendingView, counts, deleting>>

\* The lookups over any contents of the shifts table.
InitActive ==
    /\ branches = SeedBranches
    /\ attendants = LookupAttendants
    /\ shifts \in ShiftTables
    /\ shift_data = ShiftDataOf(shifts)
    /\ expenses = <<>>
    /\ cash_analysis_reports = <<>>
    /\ nextId = 20
    /\ counts = ZeroCounts
    /\ deleting = NotDeleting
    /\ globalMatrix = [loaded |-> FALSE, rows |-> <<>>]
    /\ pendingView = [m \in Managers |-> {}]
    /\ last = [op |-> "init"]

NextActive ==
    \/ GetActiveShifts
    \/ ApiShiftsActive

SpecActive == InitActive /\ [][NextActive]_vars

\* Entry through either variant of the entry form.
NextEntry ==
    \/ SubmitManualShiftData
    \/ OnSubmit_part001

SpecEntry == Init /\ [][NextEntry]_vars

\* The aggregation reads over a store in which every table has rows.
NextAggregate ==
    \/ SubmitManualShiftData
    \/ SubmitCashAnalysis
    \/ GetGlobalOverview
    \/ GetTrendData

SpecAggregate == Init /\ [][NextAggregate]_vars

(***************************************************************************)
(* The variance arithmetic on its own: any meters, price and remittances,  *)
(* validated or not.                                                       *)
(***************************************************************************)
MaxMeter == 3
MaxAmount == 2

CalcInputs ==
    [opening_meter : 0..MaxMeter, closing_meter : 0..MaxMeter,
     price_per_liter : 0..MaxAmount, cash_remitted : 0..MaxAmount,
     pos_remitted : 0..MaxAmount]

InitCalc ==
    /\ branches = SeedBranches
    /\ attendants = <<>>
    /\ shifts = <<>>
    /\ shift_data = <<>>
    /\ expenses = <<>>
    /\ cash_analysis_reports = <<>>
    /\ nextId = 1
    /\ counts = ZeroCounts
    /\ deleting = NotDeleting
    /\ globalMatrix = [loaded |-> FALSE, rows |-> <<>>]
    /\ pendingView = [m \in Managers |-> {}]
    /\ \E p \in CalcInputs : last = [op |-> "calc", done |-> FALSE, input |-> p]

ComputeVariance ==
    /\ last.op = "calc"
    /\ ~last.done
    /\ LET p == last.input
       IN  last' = [op |-> "calc", done |-> TRUE, input |-> p,
                    liters_sold |-> liters_sold(p),
                    expected_amount |-> expected_amount(p),
                    raw_variance |-> raw_variance(p.cash_remitted, p.pos_remitted,
                                                  expected_amount(p)),
                    litersSold |-> litersSold(p),
                    expectedRevenue |-> expectedRevenue(p),
                    trueVariance |-> trueVariance(p)]
    /\ UNCHANGED <<store, globalMatrix, pendingView, counts, deleting>>

NextCalc == ComputeVariance

SpecCalc == InitCalc /\ [][NextCalc]_vars

(***************************************************************************)
(* Properties.                                                             *)
(***************************************************************************)
DbNext == [branches |-> branches', attendants |-> attendants', shifts |-> shifts',
           shift_data |-> shift_data', expenses |-> expenses',
           cash_analysis_reports |-> cash_analysis_reports', nextId |-> nextId']

\* C1: every stored shift_data row, whether written by the manual entry, the
\* bulk import or the row edit, has variance = (cash_remitted + pos_remitted)
\* - expected_amount, so recomputing from the stored fields gives the stored value.
C1_VarianceFromStoredFields ==
    \A i \in 1..Len(shift_data) :
        shift_data[i].variance =
            (shift_data[i].cash_remitted + shift_data[i].pos_remitted)
            - shift_data[i].expected_amount

\* Two rows are stored and the one just edited has a non-zero variance and POS.
C1_Witness ==
    /\ last.op = "update"
    /\ Len(shift_data) = 2
    /\ \E i \in 1..Len(shift_data) :
          /\ shift_data[i].id = last.id
          /\ shift_data[i].variance # 0
          /\ shift_data[i].pos_remitted # 0

\* C2: for non-negative inputs with closing_meter >= opening_meter and
\* price_per_liter > 0, liters sold is closing - opening, the expected amount is
\* liters * price and the variance is (cash + pos) - expected, in the stored
\* computation and in the form's preview; scenario A gives 500, 325000, -5000.
C2_VarianceCalculation ==
    /\ (last.op = "calc" /\ last.done
        /\ last.input.closing_meter >= last.input.opening_meter
        /\ last.input.price_per_liter > 0)
       => LET p == last.input
              liters == p.closing_meter - p.opening_meter
          IN  /\ last.liters_sold = liters
              /\ last.expected_amount = liters * p.price_per_liter
              /\ last.raw_variance =
                     (p.cash_remitted + p.pos_remitted) - liters * p.price_per_liter
              /\ last.litersSold = liters
              /\ last.expectedRevenue = liters * p.price_per_liter
              /\ last.trueVariance =
                     (p.cash_remitted + p.pos_remitted) - liters * p.price_per_liter
    /\ LET a == [opening_meter |-> 1000, closing_meter |-> 1500,
                 price_per_liter |-> 650 * Unit, cash_remitted |-> 310000 * Unit,
                 pos_remitted |-> 10000 * Unit]
       IN  /\ liters_sold(a) = 500
           /\ expected_amount(a) = 325000 * Unit
           /\ raw_variance(a.cash_remitted, a.pos_remitted, expected_amount(a))
                  = (0 - 5000) * Unit
           /\ trueVariance(a) = (0 - 5000) * Unit

\* The calculation ran on meters that advanced, with a shortage as result.
C2_Witness ==
    /\ last.op = "calc"
    /\ last.done
    /\ last.input.closing_meter > last.input.opening_meter + 1
    /\ last.input.price_per_liter > 1
    /\ last.input.pos_remitted > 0
    /\ last.raw_variance < 0

\* C3: a manual submission whose closing meter is below its opening meter is
\* rejected and leaves every table as it was; a submission that is stored has
\* closing >= opening and a row whose expected_amount is not negative.
C3_ReversedMetersRejected ==
    /\ [][(last'.op = "submit"
            /\ last'.meters.closing_meter < last'.meters.opening_meter)
          => (~last'.ok /\ UNCHANGED store)]_vars
    /\ [](last.op = "submit" /\ last.ok
          => /\ last.meters.closing_meter >= last.meters.opening_meter
             /\ \E i \in 1..Len(shift_data) :
                   /\ shift_data[i].id = last.id
                   /\ shift_data[i].expected_amount >= 0
                   /\ shift_data[i].expected_amount =
                        (last.meters.closing_meter - last.meters.opening_meter)
                        * last.meters.price_per_liter)

\* A reversed reading was refused while the ledger already held a row.
C3_Witness ==
    /\ last.op = "submit"
    /\ ~last.ok
    /\ last.meters.closing_meter < last.meters.opening_meter
    /\ Len(shift_data) > 0

\* The ledger rows the matcher is shown for a branch and a typed name: the
\* items of that branch's overview row whose attendant name equals the typed
\* name when both are lower-cased.
LedgerRowsFor(b, n) ==
    { item \in UNION { Rows(globalMatrix.rows[i].items) :
                         i \in { j \in 1..Len(globalMatrix.rows) :
                                   globalMatrix.rows[j].branch.id = b } } :
        toLowerCase(item.attendant_name) = toLowerCase(n) }

\* C4: whenever ledger rows exist for the attendant, exactly one of MATCHED and
\* MISMATCH is reported: MATCHED iff |declared - remitted| is below one currency
\* unit, otherwise MISMATCH with difference = declared - remitted; (100, 100) is
\* MATCHED with difference 0, (100, 100.5) is MATCHED, (100, 101) is MISMATCH
\* with difference -1.
C4_MatchedXorMismatch ==
    /\ \A b \in MatcherBranches, n \in MatcherNames, declared \in DeclaredTotals :
          LET remitted == attendantRemitted(globalMatrix, b, n)
          IN  ~remitted.isNull
              => /\ isMatched(declared, remitted) # hasMismatch(declared, remitted)
                 /\ isMatched(declared, remitted)
                        <=> Abs(declared - remitted.value) < Unit
                 /\ hasMismatch(declared, remitted)
                        => difference(declared, remitted) = declared - remitted.value
    /\ LET ledger(v) == [isNull |-> FALSE, value |-> v]
       IN  /\ isMatched(100 * Unit, ledger(100 * Unit))
           /\ ~hasMismatch(100 * Unit, ledger(100 * Unit))
           /\ difference(100 * Unit, ledger(100 * Unit)) = 0
           /\ isMatched(100 * Unit, ledger(100 * Unit + Unit \div 2))
           /\ ~hasMismatch(100 * Unit, ledger(100 * Unit + Unit \div 2))
           /\ hasMismatch(100 * Unit, ledger(101 * Unit))
           /\ ~isMatched(100 * Unit, ledger(101 * Unit))
           /\ difference(100 * Unit, ledger(101 * Unit)) = (0 - 1) * Unit

\* The overview is loaded and, for one attendant with ledger rows, one declared
\* total is MATCHED although it is not the remitted total, and another is a
\* MISMATCH.
C4_Witness ==
    /\ globalMatrix.loaded
    /\ \E b \in MatcherBranches, n \in MatcherNames :
          LET remitted == attendantRemitted(globalMatrix, b, n)
          IN  /\ ~remitted.isNull
              /\ \E d1, d2 \in DeclaredTotals :
                    /\ d1 # remitted.value
                    /\ isMatched(d1, remitted)
                    /\ hasMismatch(d2, remitted)

\* C5: with no branch selected, no name typed, no overview loaded, or no ledger
\* row of the selected branch under the typed name, neither the matched nor
\* the mismatch flag is set, whatever total is declared.
C5_IndeterminateWithoutLedgerRows ==
    \A b \in MatcherBranches, n \in MatcherNames, declared \in DeclaredTotals :
        (b = <<>> \/ n = <<>> \/ ~globalMatrix.loaded \/ LedgerRowsFor(b, n) = {})
        => LET remitted == attendantRemitted(globalMatrix, b, n)
           IN  ~isMatched(declared, remitted) /\ ~hasMismatch(declared, remitted)

\* The overview is loaded, the selected branch has ledger rows, but none under
\* the typed name.
C5_Witness ==
    /\ globalMatrix.loaded
    /\ \E b \in MatcherBranches, n \in MatcherNames :
          /\ b # <<>>
          /\ n # <<>>
          /\ \E i \in 1..Len(globalMatrix.rows) :
                globalMatrix.rows[i].branch.id = b /\ globalMatrix.rows[i].items # <<>>
          /\ LedgerRowsFor(b, n) = {}
          /\ attendantRemitted(globalMatrix, b, n).isNull

\* C6: two typed names that are equal after trim and lower-casing select the
\* same ledger rows, hence the same remitted total and the same match result.
C6_NormalizedNameSelectsSameRows ==
    \A b \in MatcherBranches, n1 \in MatcherNames, n2 \in MatcherNames :
        trim(toLowerCase(n1)) = trim(toLowerCase(n2))
        => attendantRemitted(globalMatrix, b, n1) = attendantRemitted(globalMatrix, b, n2)

\* The sum of a column over the stored shift_data rows of a branch's shifts.
LedgerSum(branchId, column) ==
    LET own == SelectSeq(shift_data, LAMBDA r :
                   \E k \in 1..Len(shifts) :
                       shifts[k].id = r.shift_id /\ shifts[k].branch_id = branchId)
    IN  SumInts(Col(own, column))

ScenarioB ==
    [branches |-> << [id |-> <<"x">>, name |-> <<"X">>], [id |-> <<"y">>, name |-> <<"Y">>] >>,
     attendants |-> << [id |-> 1, branch_id |-> <<"x">>, name |-> <<"a">>] >>,
     shifts |-> << [id |-> 2, branch_id |-> <<"x">>, shift_date |-> 1,
                    shift_time |-> "Morning", status |-> "OPEN"],
                   [id |-> 3, branch_id |-> <<"x">>, shift_date |-> 1,
                    shift_time |-> "Evening", status |-> "CLOSED"],
                   [id |-> 4, branch_id |-> <<"x">>, shift_date |-> 2,
                    shift_time |-> "Morning", status |-> "OPEN"] >>,
     shift_data |-> << [id |-> 5, shift_id |-> 2, attendant_id |-> 1,
                        expected_amount |-> 100, cash_remitted |-> 90,
                        pos_remitted |-> 0, variance |-> 0 - 10],
                       [id |-> 6, shift_id |-> 3, attendant_id |-> 1,
                        expected_amount |-> 200, cash_remitted |-> 200,
                        pos_remitted |-> 0, variance |-> 0] >>,
     expenses |-> <<>>,
     cash_analysis_reports |-> <<>>,
     nextId |-> 7]

\* C7: the overview has one row per branch, in which totalExpected, totalCash,
\* totalPos and totalVariance are the sums over all shift_data rows of all the
\* branch's shifts, whatever their status and however many are OPEN; expected
\* {100,200}, cash {90,200}, pos {0,0} gives 300, 290 and -10, and a branch
\* without shifts gets zeros.
C7_OverviewTotalsPerBranch ==
    /\ LET matrix == getGlobalOverview(Db)
       IN  /\ Len(matrix) = Len(branches)
           /\ \A b \in 1..Len(branches) :
                 /\ matrix[b].branch = branches[b]
                 /\ matrix[b].totalExpected = LedgerSum(branches[b].id, "expected_amount")
                 /\ matrix[b].totalCash = LedgerSum(branches[b].id, "cash_remitted")
                 /\ matrix[b].totalPos = LedgerSum(branches[b].id, "pos_remitted")
                 /\ matrix[b].totalVariance = LedgerSum(branches[b].id, "variance")
    /\ last.op = "getGlobalOverview" => globalMatrix.rows = getGlobalOverview(Db)
    /\ LET matrix == getGlobalOverview(ScenarioB)
       IN  /\ Len(matrix) = 2
           /\ matrix[1].totalExpected = 300
           /\ matrix[1].totalCash = 290
           /\ matrix[1].totalPos = 0
           /\ matrix[1].totalVariance = 0 - 10
           /\ matrix[2].shift = <<>>
           /\ matrix[2].totalExpected = 0
           /\ matrix[2].totalCash = 0
           /\ matrix[2].totalPos = 0
           /\ matrix[2].totalVariance = 0

\* The overview was just read while one branch had rows in two OPEN shifts
\* and the other branch had no shift.
C7_Witness ==
    /\ last.op = "getGlobalOverview"
    /\ \E i, j \in 1..Len(shift_data) :
          /\ shift_data[i].shift_id # shift_data[j].shift_id
          /\ \E k, l \in 1..Len(shifts) :
                /\ shifts[k].id = shift_data[i].shift_id
                /\ shifts[l].id = shift_data[j].shift_id
                /\ shifts[k].branch_id = shifts[l].branch_id
                /\ shifts[k].status = "OPEN"
                /\ shifts[l].status = "OPEN"
    /\ \E b \in 1..Len(branches) :
          /\ \A k \in 1..Len(shifts) : shifts[k].branch_id # branches[b].id
          /\ globalMatrix.rows[b].totalExpected = 0

\* The amounts of the stored expenses that are PENDING and belong to one of
\* the given ledger rows.
PendingAmountsOf(items) ==
    Col(SelectSeq(expenses, LAMBDA e :
            e.status = "PENDING" /\ e.shift_data_id \in Ids(items)), "amount")

\* C8: an overview read lists in each branch row only expenses that are PENDING
\* and totals only their amounts, and an expense that has left PENDING never
\* returns to it; so after approveExpense(id) or rejectExpense(id) has
\* completed, no later overview contains id or counts its amount.
C8_OnlyPendingInOverview ==
    /\ [](last.op = "getGlobalOverview"
          => \A b \in 1..Len(globalMatrix.rows) :
                LET row == globalMatrix.rows[b]
                IN  /\ \A k \in 1..Len(row.pendingExpenses) :
                          \E i \in 1..Len(expenses) :
                              /\ expenses[i].id = row.pendingExpenses[k].id
                              /\ expenses[i].status = "PENDING"
                    /\ row.pendingExpenseTotal = SumInts(PendingAmountsOf(row.items)))
    /\ [][\A i \in 1..Len(expenses) :
            expenses[i].status # "PENDING"
            => /\ i <= Len(expenses')
               /\ expenses'[i].id = expenses[i].id
               /\ expenses'[i].status # "PENDING"]_vars

\* An overview was read after one expense was approved or rejected while
\* another expense of the same branch was still pending.
C8_Witness ==
    /\ last.op = "getGlobalOverview"
    /\ \E i \in 1..Len(expenses) : expenses[i].status \in {"APPROVED", "REJECTED"}
    /\ \E b \in 1..Len(globalMatrix.rows) :
          /\ globalMatrix.rows[b].pendingExpenseTotal > 0
          /\ \E i \in 1..Len(expenses) :
                /\ expenses[i].status \in {"APPROVED", "REJECTED"}
                /\ expenses[i].shift_data_id \in Ids(globalMatrix.rows[b].items)

\* C9: once an expense is APPROVED or REJECTED its status never changes again,
\* under any sequence of approveExpense and rejectExpense calls by any managers.
C9_DecidedExpenseIsTerminal ==
    [][\A i \in 1..Len(expenses) :
          expenses[i].status \in {"APPROVED", "REJECTED"}
          => /\ i <= Len(expenses')
             /\ expenses'[i].status = expenses[i].status]_vars

\* C10: approveExpense and rejectExpense change only the status of the targeted
\* expense: the shift_data rows (amounts, variance), the other expenses, the
\* other tables and every branch's totalVariance in the overview stay as they were.
C10_DecisionChangesOnlyStatus ==
    [][last'.op \in {"approve", "reject"}
       => /\ shift_data' = shift_data
          /\ shifts' = shifts
          /\ attendants' = attendants
          /\ branches' = branches
          /\ Len(expenses') = Len(expenses)
          /\ \A i \in 1..Len(expenses) :
                IF expenses[i].id = last'.id
                THEN /\ expenses'[i].id = expenses[i].id
                     /\ expenses'[i].shift_data_id = expenses[i].shift_data_id
                     /\ expenses'[i].amount = expenses[i].amount
                ELSE expenses'[i] = expenses[i]
          /\ \A b \in 1..Len(branches) :
                getGlobalOverview(DbNext)[b].totalVariance
                    = getGlobalOverview(Db)[b].totalVariance]_vars

\* An expense was just approved while another one is still pending.
C10_Witness ==
    /\ last.op = "approve"
    /\ \E i, j \in 1..Len(expenses) :
          /\ expenses[i].id = last.id
          /\ expenses[i].status = "APPROVED"
          /\ expenses[j].status = "PENDING"
          /\ \E k \in 1..Len(shift_data) : shift_data[k].id = expenses[i].shift_data_id

\* C11: in every reachable state there is at most one OPEN shift per
\* (branch_id, shift_date, shift_time), under any sequence of manual entries,
\* bulk imports and row edits (which can re-date a row's parent shift).
C11_AtMostOneOpenShiftPerKey ==
    \A i, j \in 1..Len(shifts) :
        (/\ shifts[i].status = "OPEN"
         /\ shifts[j].status = "OPEN"
         /\ shifts[i].branch_id = shifts[j].branch_id
         /\ shifts[i].shift_date = shifts[j].shift_date
         /\ shifts[i].shift_time = shifts[j].shift_time)
        => i = j

\* C12: no branch has two attendants whose names are equal ignoring letter
\* case and surrounding whitespace, after any sequence of manual entries and
\* bulk imports.
C12_NoDuplicateAttendantNames ==
    \A i, j \in 1..Len(attendants) :
        (/\ attendants[i].branch_id = attendants[j].branch_id
         /\ trim(toLowerCase(attendants[i].name)) = trim(toLowerCase(attendants[j].name)))
        => i = j

\* Scenario C: three rows of known branches and two rows of unknown branches.
ScenarioC ==
    << [branch |-> <<"x">>, attendant_name |-> <<"a">>, date |-> 1, time |-> "Morning",
        expected_amount |-> 100, cash_remitted |-> 90, pos_remitted |-> 10],
       [branch |-> <<"z">>, attendant_name |-> <<"a">>, date |-> 1, time |-> "Morning",
        expected_amount |-> 100, cash_remitted |-> 100, pos_remitted |-> 0],
       [branch |-> <<"x">>, attendant_name |-> <<"b">>, date |-> 1, time |-> "Morning",
        expected_amount |-> 200, cash_remitted |-> 200, pos_remitted |-> 0],
       [branch |-> <<"Y">>, attendant_name |-> <<"c">>, date |-> 2, time |-> "Evening",
        expected_amount |-> 300, cash_remitted |-> 0, pos_remitted |-> 300],
       [branch |-> <<"q">>, attendant_name |-> <<"c">>, date |-> 2, time |-> "Evening",
        expected_amount |-> 300, cash_remitted |-> 0, pos_remitted |-> 300] >>

\* C13: an import in which some rows resolve to a known branch and others do
\* not completes without error and reports count = the number of rows inserted
\* and skipped = the number of rows dropped; three valid rows plus two
\* unknown-branch rows report count = 3 and skipped = 2.
C13_ImportReportsCountAndSkipped ==
    (last.op = "upload" /\ last.ok)
    => /\ Len(last.returned) = 1
       /\ last.returned[1].count = last.count
       /\ "skipped" \in DOMAIN last.returned[1]
       /\ last.returned[1].skipped = last.rows - last.count
       /\ LET r == uploadShiftDataBatch(ScenarioB, ScenarioC, 0)
          IN  /\ r.error = ""
              /\ r.returned[1].count = 3
              /\ "skipped" \in DOMAIN r.returned[1]
              /\ r.returned[1].skipped = 2

Insertable(g) ==
    Len(SelectSeq(g.rows, LAMBDA row :
            trim(row.attendant_name) # <<>> /\ row.expected_amount # 0))

\* The rows of a sequence of shift_data rows whose shift is the group's.
RowsOfGroup(rows, g) ==
    SelectSeq(rows, LAMBDA r :
        \E i \in 1..Len(shifts') :
            /\ shifts'[i].id = r.shift_id
            /\ shifts'[i].branch_id = g.branch_id
            /\ shifts'[i].shift_date = g.shift_date
            /\ shifts'[i].shift_time = g.shift_time)

\* C15: the import works group by group and is not atomic: when an attendant
\* insert fails inside group k the call throws, no shift_data row of group k
\* is stored, and the rows stored for the groups before k (and everything stored
\* before the call) stay stored.
C15_FailedGroupAbortsWithoutRollback ==
    [][(last'.op = "upload" /\ "failedGroup" \in DOMAIN last')
       => LET groups == branchGroups(branchMapOf(branches), last'.csvRows)
              k == last'.failedGroup
              added == SubSeq(shift_data', Len(shift_data) + 1, Len(shift_data'))
          IN  /\ k \in 1..Len(groups)
              /\ last'.returned = <<>>
              /\ Len(shift_data') >= Len(shift_data)
              /\ SubSeq(shift_data', 1, Len(shift_data)) = shift_data
              /\ RowsOfGroup(added, groups[k]) = <<>>
              /\ \A j \in 1..(k - 1) :
                    Len(RowsOfGroup(added, groups[j])) = Insertable(groups[j])
              /\ \A j \in (k + 1)..Len(groups) : RowsOfGroup(added, groups[j]) = <<>>]_vars

\* The second group of an import failed on its attendant after the first
\* group's row was stored.
C15_Witness ==
    /\ last.op = "upload"
    /\ "failedGroup" \in DOMAIN last
    /\ last.failedGroup = 2
    /\ last.count = 1
    /\ Len(shift_data) >= 1

\* C16: a read failure while computing the overview or the trend cancels the
\* computation with an error; no overview or trend built from the rows that
\* did load is returned.
C16_ReadFailureCancelsAggregation ==
    (last.op \in {"getGlobalOverview", "getTrendData"} /\ last.failed # {})
    => last.threw /\ last.rows = <<>>

\* The selected records of a trend call: the stored rows whose shift is dated
\* within the window.
TrendRecords(days) ==
    SelectSeq(shift_data, LAMBDA r :
        \E k \in 1..Len(shifts) :
            shifts[k].id = r.shift_id /\ shifts[k].shift_date >= Today - days)

DateOfRecord(r) == (CHOOSE sh \in Rows(shifts) : sh.id = r.shift_id).shift_date

ScenarioTrend ==
    [ScenarioB EXCEPT
       !.shift_data = << [id |-> 5, shift_id |-> 2, attendant_id |-> 1,
                          expected_amount |-> 1000, cash_remitted |-> 500,
                          pos_remitted |-> 0, variance |-> 0 - 500],
                         [id |-> 6, shift_id |-> 3, attendant_id |-> 1,
                          expected_amount |-> 1000, cash_remitted |-> 1200,
                          pos_remitted |-> 0, variance |-> 200] >>]

\* C20: getTrendData returns exactly one entry per distinct shift_date among
\* the selected shift_data records, and the entry's variance is the sum of the
\* variances of the records of that date; two same-day rows with variances
\* -500 and +200 give one entry with variance -300.
C20_TrendOneEntryPerDate ==
    /\ (last.op = "getTrendData" /\ ~last.threw)
       => LET records == TrendRecords(last.days)
              dates == {DateOfRecord(records[i]) : i \in 1..Len(records)}
          IN  /\ Len(last.rows) = Cardinality(dates)
              /\ {last.rows[i].date : i \in 1..Len(last.rows)} = dates
              /\ \A i \in 1..Len(last.rows) :
                    last.rows[i].variance =
                        SumInts(Col(SelectSeq(records, LAMBDA r :
                                        DateOfRecord(r) = last.rows[i].date), "variance"))
    /\ LET trend == getTrendData(ScenarioTrend, 30)
       IN  /\ Len(trend) = 1
           /\ trend[1].date = 1
           /\ trend[1].variance = 0 - 300

\* A trend was returned whose single day entry sums a shortage and a surplus
\* recorded on that day.
C20_Witness ==
    /\ last.op = "getTrendData"
    /\ ~last.threw
    /\ Len(last.rows) = 1
    /\ \E i, j \in 1..Len(shift_data) :
          /\ shift_data[i].shift_id = shift_data[j].shift_id
          /\ shift_data[i].variance < 0
          /\ shift_data[j].variance > 0
          /\ last.rows[1].variance = shift_data[i].variance + shift_data[j].variance

\* The sum of value * count over the eight known denominations of a mapping.
KnownDenominationsTotal(m) ==
    1000 * countOf(m, 1000) + 500 * countOf(m, 500) + 200 * countOf(m, 200)
    + 100 * countOf(m, 100) + 50 * countOf(m, 50) + 20 * countOf(m, 20)
    + 10 * countOf(m, 10) + 5 * countOf(m, 5)

\* The sum of value * count taken over the keys in a given order.
TotalInOrder(order, m) == SumInts([i \in 1..Len(order) |-> order[i] * m[order[i]]])

Reversed(seq) == [i \in 1..Len(seq) |-> seq[Len(seq) + 1 - i]]

\* C17: for every mapping of the eight denominations to non-negative counts,
\* each subtotal is value * count and totalCash is the sum of value * count
\* over all entries, in whatever order the keys are taken.
C17_TotalCashIsSumOfSubtotals ==
    /\ DOMAIN subtotals(counts) = Denominations
    /\ \A d \in Denominations : subtotals(counts)[d] = d * counts[d]
    /\ totalCash(counts) = KnownDenominationsTotal(counts)
    /\ totalCash(counts) = TotalInOrder(DENOMINATIONS, counts)
    /\ totalCash(counts) = TotalInOrder(Reversed(DENOMINATIONS), counts)
    /\ totalCash(counts) = TotalInOrder(keysAscending(DOMAIN counts), counts)

\* Counts were typed for three denominations, two of the largest note.
C17_Witness ==
    /\ last.op = "handleCountChange"
    /\ counts[1000] = 2
    /\ counts[50] = 1
    /\ counts[5] = 1
    /\ totalCash(counts) = 2055

ImportCountCells ==
    { << <<"1">>, <<"2">>, <<>>, <<"a">>, <<"0">>, <<"1">>, <<"1">>, <<"2">> >>,
      << <<"3">> >> }

\* C18: keys of a denomination mapping other than the eight known values are
\* ignored wherever a physical cash total is computed: the form's totalCash,
\* the import's fallback total and the drill-down's vault total are all the
\* sum over the eight known denominations only.
C18_UnknownDenominationsIgnored ==
    /\ \A m \in DenominationMappings : totalCash(m) = KnownDenominationsTotal(m)
    /\ \A cells \in ImportCountCells :
          importTotalCash(0, importDenomCounts(cells))
              = KnownDenominationsTotal(importDenomCounts(cells))
    /\ (last.op = "getAttendantDrillDown" /\ last.cashReport # <<>>)
       => last.vaultTotal = KnownDenominationsTotal(last.cashReport[1].denominations)

\* C19: after any sequence of count edits with any input (negative, not a
\* number, empty), every stored count is an integer >= 0, an edit changes only
\* the edited count, and the totalCash shown and sent is never negative.
C19_CountsClampedToZero ==
    /\ DOMAIN counts = Denominations
    /\ \A d \in Denominations : counts[d] \in Nat
    /\ totalCash(counts) >= 0
    /\ lockCashSheet([branch_id |-> <<"x">>, attendant_name |-> <<"a">>, shift_date |-> 1,
                      shift_time |-> "Morning"], counts).total_cash >= 0
    /\ \A d \in Denominations, value \in CountInputs :
          LET after == handleCountChange(counts, d, value)
          IN  /\ after[d] \in Nat
              /\ \A e \in Denominations \ {d} : after[e] = counts[e]
              /\ value \in {<<>>, <<"a">>, <<"-", "3">>} => after[d] = 0
              /\ value = <<"0", "2">> => after[d] = 2
              /\ value = <<"1", ".", "5">> => after[d] = 1

\* A negative number was just typed into a field while another field holds a
\* positive count.
C19_Witness ==
    /\ last.op = "handleCountChange"
    /\ last.negative
    /\ \E d \in Denominations : counts[d] > 0
    /\ \E d \in Denominations : counts[d] = 0
    /\ totalCash(counts) > 0

\* C21: the series getTrendData returns is strictly ascending by date, in
\* whatever order the shift_data rows were read.
C21_TrendSortedAscending ==
    (last.op = "getTrendData" /\ ~last.threw)
    => \A i, j \in 1..Len(last.rows) : i < j => last.rows[i].date < last.rows[j].date

\* A trend of two days was returned for rows read with the later day first.
C21_Witness ==
    /\ last.op = "getTrendData"
    /\ ~last.threw
    /\ Len(last.rows) = 2
    /\ Len(last.read) = 2
    /\ last.read[1].shift_date > last.read[2].shift_date

\* C22: in each trend entry claimed is the sum over the day's records of
\* max(0, expected_amount - cash_remitted) and actual is the sum of their
\* pos_remitted; claimed is never negative, also when a record's cash_remitted
\* exceeds its expected_amount.
C22_ClaimedAndActualPerDay ==
    (last.op = "getTrendData" /\ ~last.threw)
    => LET records == TrendRecords(last.days)
       IN  \A i \in 1..Len(last.rows) :
               LET day == SelectSeq(records, LAMBDA r : DateOfRecord(r) = last.rows[i].date)
               IN  /\ last.rows[i].claimed =
                          SumInts([k \in 1..Len(day) |->
                                      Max(0, day[k].expected_amount - day[k].cash_remitted)])
                   /\ last.rows[i].actual = SumInts(Col(day, "pos_remitted"))
                   /\ last.rows[i].claimed >= 0

\* A trend entry with a positive claimed amount covers a day on which one
\* record's cash exceeds its expected amount.
C22_Witness ==
    /\ last.op = "getTrendData"
    /\ ~last.threw
    /\ \E i \in 1..Len(last.rows) :
          /\ last.rows[i].claimed > 0
          /\ \E k \in 1..Len(shift_data) :
                /\ DateOfRecord(shift_data[k]) = last.rows[i].date
                /\ shift_data[k].cash_remitted > shift_data[k].expected_amount

\* C23: aggregation is read-only: getGlobalOverview and getTrendData leave every
\* stored branch, attendant, shift, shift_data, expense and
\* cash_analysis_report row as it was.
C23_AggregationIsReadOnly ==
    [][last'.op \in {"getGlobalOverview", "getTrendData"}
       => /\ branches' = branches
          /\ attendants' = attendants
          /\ shifts' = shifts
          /\ shift_data' = shift_data
          /\ expenses' = expenses
          /\ cash_analysis_reports' = cash_analysis_reports]_vars

\* A trend was just computed, after an overview, over a store that holds
\* ledger rows, expenses and a cash analysis report.
C23_Witness ==
    /\ last.op = "getTrendData"
    /\ last.rows # <<>>
    /\ globalMatrix.loaded
    /\ \E b \in 1..Len(globalMatrix.rows) : globalMatrix.rows[b].pendingExpenses # <<>>
    /\ shift_data # <<>>
    /\ expenses # <<>>
    /\ cash_analysis_reports # <<>>

\* C26: when uploadShiftDataBatch fails with 'No valid rows inserted' it has
\* left the stored state as it was: the failed call created no shift and no
\* attendant.
C26_NoValidRowsLeavesStoreUnchanged ==
    [][(last'.op = "upload" /\ last'.error = "No valid rows inserted")
       => /\ shifts' = shifts
          /\ attendants' = attendants
          /\ shift_data' = shift_data
          /\ expenses' = expenses
          /\ branches' = branches
          /\ cash_analysis_reports' = cash_analysis_reports]_vars

\* C27: variance is consistent at every level of the ledger: after any
\* sequence of manual entries, imports and row edits every branch row has
\* totalVariance = totalCash + totalPos - totalExpected, and the global
\* tracker's totals are the sums of the branch rows' totals, with
\* variance = remitted - expected.
C27_VarianceConsistentAtEveryLevel ==
    LET matrix == getGlobalOverview(Db)
        totals == GlobalTracker(matrix)
    IN  /\ \A b \in 1..Len(matrix) :
              matrix[b].totalVariance
                  = matrix[b].totalCash + matrix[b].totalPos - matrix[b].totalExpected
        /\ totals.expected =
               SumInts([b \in 1..Len(branches) |->
                           LedgerSum(branches[b].id, "expected_amount")])
        /\ totals.remitted =
               SumInts([b \in 1..Len(branches) |->
                           LedgerSum(branches[b].id, "cash_remitted")
                           + LedgerSum(branches[b].id, "pos_remitted")])
        /\ totals.variance =
               SumInts([b \in 1..Len(branches) |-> LedgerSum(branches[b].id, "variance")])
        /\ totals.variance = totals.remitted - totals.expected

\* A row was just edited, both branches have ledger rows with a non-zero
\* variance, one of them with POS takings, and the global variance is a shortage.
C27_Witness ==
    /\ last.op = "update"
    /\ \A b \in 1..Len(branches) : LedgerSum(branches[b].id, "variance") # 0
    /\ \E b \in 1..Len(branches) : LedgerSum(branches[b].id, "pos_remitted") > 0
    /\ GlobalTracker(getGlobalOverview(Db)).variance < 0

\* C28: editing one ledger row affects only that row: after
\* updateShiftDataRecord(id, updates) with a new shift_date, every other
\* shift_data record has the same expected_amount, cash_remitted,
\* pos_remitted, variance and shift_date in the next overview as before.
C28_EditAffectsOnlyEditedRow ==
    [][(last'.op = "update" /\ last'.shift_date # 0)
       => LET before == shiftDataItems(Db)
              after == shiftDataItems(DbNext)
          IN  \A i \in 1..Len(before) :
                  before[i].id # last'.id
                  => \E j \in 1..Len(after) :
                        /\ after[j].id = before[i].id
                        /\ after[j].expected_amount = before[i].expected_amount
                        /\ after[j].cash_remitted = before[i].cash_remitted
                        /\ after[j].pos_remitted = before[i].pos_remitted
                        /\ after[j].variance = before[i].variance
                        /\ after[j].shift_date = before[i].shift_date]_vars

\* C29: for every input the entry form's validation accepts, the True Variance
\* the form previews equals the variance submitManualShiftData stores for that
\* submission, in both variants of the form and with or without expenses.
C29_PreviewEqualsPersistedVariance ==
    (last.op = "submit" /\ last.ok)
    => \E i \in 1..Len(shift_data) :
          /\ shift_data[i].id = last.id
          /\ shift_data[i].variance = last.preview

\* C30: the active-shift lookup is scoped to the requested branch:
\* get_active_shifts(branch_id) and GET /api/shifts/active/:branchId return an
\* OPEN shift of the requested branch together with that shift's records, and
\* report 'no active shift' exactly when that branch has no OPEN shift.
C30_ActiveShiftScopedToBranch ==
    (last.op \in {"get_active_shifts", "GET /api/shifts/active"} /\ last.branch_id # <<>>)
    => LET open == SelectSeq(shifts, LAMBDA s :
                       s.branch_id = last.branch_id /\ s.status = "OPEN")
           r == last.result
       IN  /\ ~r.threw
           /\ r.noActiveShift <=> (open = <<>>)
           /\ open # <<>>
              => /\ Len(r.shift) = 1
                 /\ r.shift[1].branch_id = last.branch_id
                 /\ r.shift[1].status = "OPEN"
                 /\ {r.data[i].id : i \in 1..Len(r.data)}
                      = {shift_data[k].id : k \in {n \in 1..Len(shift_data) :
                                                     shift_data[n].shift_id = r.shift[1].id}}

====
